---- MODULE Spec2Model ----
(***************************************************************************)
(* Credential lifecycle and auth-aware dispatch core of gtasks-mcp         *)
(* (src/src/index.ts): the credential file and its merge rule, the         *)
(* process-wide OAuth client, error classification, withAuthRetry and the  *)
(* CallTool dispatcher.  Every await on an external collaborator (remote   *)
(* API call, token refresh, interactive authorization) is one suspension   *)
(* point; the synchronous code between two suspension points is one step.  *)
(***************************************************************************)
EXTENDS Integers, Sequences, FiniteSets, TLC

(***************************************************************************)
(* Bounds of the model.                                                    *)
(***************************************************************************)
NumProcs == 2
MaxTokenEvents == 1
MaxClients == 2

Procs == 1..NumProcs

(***************************************************************************)
(* JavaScript values as they appear on error objects and tool arguments.   *)
(***************************************************************************)
Undef == [t |-> "undefined", n |-> 0, s |-> ""]
Null == [t |-> "null", n |-> 0, s |-> ""]
Num(k) == [t |-> "number", n |-> k, s |-> ""]
Str(x) == [t |-> "string", n |-> 0, s |-> x]
Bool(b) == [t |-> "boolean", n |-> IF b THEN 1 ELSE 0, s |-> ""]
Obj == [t |-> "object", n |-> 0, s |-> ""]

\* JavaScript truthiness: undefined, null, 0, "" and false are falsy.
Truthy(v) ==
    CASE v.t = "undefined" -> FALSE
      [] v.t = "null" -> FALSE
      [] v.t = "number" -> v.n # 0
      [] v.t = "string" -> v.s # ""
      [] v.t = "boolean" -> v.n = 1
      [] OTHER -> TRUE

\* a || b
Or(a, b) == IF Truthy(a) THEN a ELSE b

\* v === k for a number literal k, v === x for a string literal x
IsNum(v, k) == v.t = "number" /\ v.n = k
IsStr(v, x) == v.t = "string" /\ v.s = x

(***************************************************************************)
(* Error messages are sequences of characters, so that toLowerCase() and   *)
(* includes() are computed rather than assumed.                            *)
(***************************************************************************)
Upper == <<"A","B","C","D","E","F","G","H","I","J","K","L","M",
           "N","O","P","Q","R","S","T","U","V","W","X","Y","Z">>
Lower == <<"a","b","c","d","e","f","g","h","i","j","k","l","m",
           "n","o","p","q","r","s","t","u","v","w","x","y","z">>

LowerChar(c) ==
    IF \E i \in 1..26 : Upper[i] = c
    THEN Lower[CHOOSE i \in 1..26 : Upper[i] = c]
    ELSE c

UpperChar(c) ==
    IF \E i \in 1..26 : Lower[i] = c
    THEN Upper[CHOOSE i \in 1..26 : Lower[i] = c]
    ELSE c

toLowerCase(m) == [i \in 1..Len(m) |-> LowerChar(m[i])]
toUpperCase(m) == [i \in 1..Len(m) |-> UpperChar(m[i])]

includes(m, sub) ==
    \E k \in 0..(Len(m) - Len(sub)) :
        \A i \in 1..Len(sub) : m[k + i] = sub[i]

invalid_grant == <<"i","n","v","a","l","i","d","_","g","r","a","n","t">>
invalid_credentials ==
    <<"i","n","v","a","l","i","d","_","c","r","e","d","e","n","t","i","a","l","s">>
unauthorized == <<"u","n","a","u","t","h","o","r","i","z","e","d">>
authentication == <<"a","u","t","h","e","n","t","i","c","a","t","i","o","n">>
invalid_token == <<"i","n","v","a","l","i","d"," ","t","o","k","e","n">>

AuthMessageSignals ==
    {invalid_grant, invalid_credentials, unauthorized, authentication, invalid_token}

MessageOf_CaseSensitive(error) == IF error.hasMessage THEN error.message ELSE <<>>

\* error.message?.toLowerCase() || ""   (hasMessage = FALSE: message is undefined)
MessageOf(error) == IF error.hasMessage THEN toLowerCase(error.message) ELSE <<>>

(***************************************************************************)
(* isAuthError.  An error object is                                        *)
(*   [nullish, code, status, responseStatus, responseCode, hasMessage,     *)
(*    message]                                                             *)
(* where responseStatus is error.response?.status, responseCode is         *)
(* error.response?.data?.error?.code, and nullish marks a thrown value     *)
(* that is itself null or undefined.                                       *)
(***************************************************************************)
StatusOf(error) == Or(Or(error.code, error.status), error.responseStatus)

ErrorCodeOf(error) == Or(error.code, error.responseCode)

isAuthError(error) ==
    /\ ~error.nullish
    /\ \/ IsNum(StatusOf(error), 401) \/ IsNum(StatusOf(error), 403)
       \/ \E sig \in AuthMessageSignals : includes(MessageOf(error), sig)
       \/ IsStr(ErrorCodeOf(error), "UNAUTHENTICATED")
       \/ IsStr(ErrorCodeOf(error), "PERMISSION_DENIED")

MkError(code, status, responseStatus, responseCode, hasMessage, message) ==
    [nullish |-> FALSE, code |-> code, status |-> status,
     responseStatus |-> responseStatus, responseCode |-> responseCode,
     hasMessage |-> hasMessage, message |-> message]

NoError == [MkError(Undef, Undef, Undef, Undef, FALSE, <<>>) EXCEPT !.nullish = TRUE]

(***************************************************************************)
(* Credentials.  Only access_token and refresh_token are tracked; an       *)
(* absent field is None.                                                   *)
(***************************************************************************)
None == "none"
AccessTokens == {"a1", "a2"}
RefreshTokens == {"r1", "r2"}

Credentials ==
    [access_token : AccessTokens \cup {None}, refresh_token : RefreshTokens \cup {None}]

EmptyCredentials == [access_token |-> None, refresh_token |-> None]

\* x || y on token fields
OrTok(x, y) == IF x # None THEN x ELSE y

\* { ...a, ...b }
Spread(a, b) ==
    [access_token |-> OrTok(b.access_token, a.access_token),
     refresh_token |-> OrTok(b.refresh_token, a.refresh_token)]

\* The credential file: missing, corrupt (not parsable) or holding a record.
MissingFile == [state |-> "missing", credentials |-> EmptyCredentials]
CorruptFile == [state |-> "corrupt", credentials |-> EmptyCredentials]
StoredFile(c) == [state |-> "ok", credentials |-> c]

\* fs.existsSync(credentialsPath)
existsSync(file) == file.state # "missing"

readStoredCredentials_CorruptAsEmpty(file) ==
    IF ~existsSync(file)
    THEN [isNull |-> TRUE, value |-> EmptyCredentials, raised |-> FALSE]
    ELSE [isNull |-> FALSE, value |-> file.credentials, raised |-> FALSE]

readStoredCredentials_NoCatch(file) ==
    IF ~existsSync(file)
    THEN [isNull |-> TRUE, value |-> EmptyCredentials, raised |-> FALSE]
    ELSE IF file.state = "corrupt"
         THEN [isNull |-> TRUE, value |-> EmptyCredentials, raised |-> TRUE]
         ELSE [isNull |-> FALSE, value |-> file.credentials, raised |-> FALSE]

\* readStoredCredentials: [isNull, value, raised]; JSON.parse and readFileSync
\* are inside the try, so no path raises
readStoredCredentials(file) ==
    IF ~existsSync(file)
    THEN [isNull |-> TRUE, value |-> EmptyCredentials, raised |-> FALSE]
    ELSE IF file.state = "corrupt"
         THEN [isNull |-> TRUE, value |-> EmptyCredentials, raised |-> FALSE]
         ELSE [isNull |-> FALSE, value |-> file.credentials, raised |-> FALSE]

\* readStoredCredentials() || {}
storedOrEmpty(file) ==
    IF readStoredCredentials(file).isNull THEN EmptyCredentials
    ELSE readStoredCredentials(file).value

mergedCredentials_NoFallback(existingCredentials, credentials) ==
    [Spread(existingCredentials, credentials)
        EXCEPT !.refresh_token = credentials.refresh_token]

\* saveCredentials: the record written to the file and returned
mergedCredentials(existingCredentials, credentials) ==
    [Spread(existingCredentials, credentials)
        EXCEPT !.refresh_token =
            OrTok(credentials.refresh_token, existingCredentials.refresh_token)]

(***************************************************************************)
(* The endpoint registry.  A name is a sequence of segments, so that the   *)
(* dots-to-dashes normalisation is computed.                               *)
(***************************************************************************)
Ep(group, method) == <<group, ".", method>>

Def(requiredParams, usesBody) ==
    [requiredParams |-> requiredParams, usesBody |-> usesBody]

EndpointNames ==
    {Ep("tasklists", m) : m \in {"list", "get", "insert", "update", "patch", "delete"}}
    \cup {Ep("tasks", m) :
            m \in {"list", "get", "insert", "update", "patch", "delete", "move", "clear"}}

taskApiEndpoints(endpointName) ==
    CASE endpointName = Ep("tasklists", "list") -> Def(<<>>, FALSE)
      [] endpointName = Ep("tasklists", "get") -> Def(<<"tasklist">>, FALSE)
      [] endpointName = Ep("tasklists", "insert") -> Def(<<>>, TRUE)
      [] endpointName = Ep("tasklists", "update") -> Def(<<"tasklist">>, TRUE)
      [] endpointName = Ep("tasklists", "patch") -> Def(<<"tasklist">>, TRUE)
      [] endpointName = Ep("tasklists", "delete") -> Def(<<"tasklist">>, FALSE)
      [] endpointName = Ep("tasks", "list") -> Def(<<"tasklist">>, FALSE)
      [] endpointName = Ep("tasks", "get") -> Def(<<"tasklist", "task">>, FALSE)
      [] endpointName = Ep("tasks", "insert") -> Def(<<"tasklist">>, TRUE)
      [] endpointName = Ep("tasks", "update") -> Def(<<"tasklist", "task">>, TRUE)
      [] endpointName = Ep("tasks", "patch") -> Def(<<"tasklist", "task">>, TRUE)
      [] endpointName = Ep("tasks", "delete") -> Def(<<"tasklist", "task">>, FALSE)
      [] endpointName = Ep("tasks", "move") -> Def(<<"tasklist", "task">>, FALSE)
      [] endpointName = Ep("tasks", "clear") -> Def(<<"tasklist">>, FALSE)

toToolName_Unchanged(endpointName) == endpointName

\* endpointName.replace(/\./g, "-")
toToolName(endpointName) ==
    [i \in 1..Len(endpointName) |-> IF endpointName[i] = "." THEN "-" ELSE endpointName[i]]

\* Keys every object inherits: toolNameToEndpoint[name] is then a truthy value
\* that is not a string, and taskApiEndpoints has no entry under it.
ObjectPrototypeKeys == {<<"constructor">>, <<"toString">>, <<"__proto__">>}

\* toolNameToEndpoint[name] names an entry of taskApiEndpoints
Resolves(name) == \E e \in EndpointNames : toToolName(e) = name

toolNameToEndpoint(name) == CHOOSE e \in EndpointNames : toToolName(e) = name

\* buildInputSchema(definition).required: requiredParams, then "body" if usesBody
schemaRequired(definition) ==
    definition.requiredParams \o (IF definition.usesBody THEN <<"body">> ELSE <<>>)

reauthorize == <<"reauthorize">>

(***************************************************************************)
(* Tool arguments: a value for each of the keys the registry knows; Undef  *)
(* is a key that was not supplied.                                         *)
(***************************************************************************)
ArgKeys == {"tasklist", "task", "body"}

\* const params = { ...args }; delete params.body
ParamsOf(args) == [k \in ArgKeys |-> IF k = "body" THEN Undef ELSE args[k]]

\* endpoint.usesBody ? args.body || {} : {}
BodyOf(endpoint, args) ==
    IF endpoint.usesBody THEN Or(args["body"], Obj) ELSE Obj

IsMissing_UndefinedOnly(params, requiredParam) ==
    params[requiredParam] = Undef

\* params[requiredParam] === undefined || params[requiredParam] === null
IsMissing(params, requiredParam) ==
    params[requiredParam] = Undef \/ params[requiredParam] = Null

FirstMissing_Last(endpoint, params) ==
    IF \E i \in 1..Len(endpoint.requiredParams) :
            IsMissing(params, endpoint.requiredParams[i])
    THEN CHOOSE i \in 1..Len(endpoint.requiredParams) :
            /\ IsMissing(params, endpoint.requiredParams[i])
            /\ \A j \in (i + 1)..Len(endpoint.requiredParams) :
                    ~IsMissing(params, endpoint.requiredParams[j])
    ELSE 0

\* index in requiredParams of the first parameter the loop throws on, 0 if none
FirstMissing(endpoint, params) ==
    IF \E i \in 1..Len(endpoint.requiredParams) :
            IsMissing(params, endpoint.requiredParams[i])
    THEN CHOOSE i \in 1..Len(endpoint.requiredParams) :
            /\ IsMissing(params, endpoint.requiredParams[i])
            /\ \A j \in 1..(i - 1) : ~IsMissing(params, endpoint.requiredParams[j])
    ELSE 0

(***************************************************************************)
(* State.                                                                  *)
(***************************************************************************)
VARIABLES
    credFile,               \* content of .gtasks-server-credentials.json
    keyFile,                \* gcp-oauth.keys.json: "missing", "invalid" or "ok"
    oauthClientConfig,      \* the cached client identity, "null" before the load
    auth,                   \* let auth: a client id, 0 for null
    googleAuth,             \* the client bound by google.options({ auth }), 0 if none
    clients,                \* the OAuth2 client objects ever created, by id
    tokenListenerClients,   \* the WeakSet of clients with a listener attached
    proc,                   \* the entry point (0) and the tool invocations in flight
    lastCarried,            \* history: the last refresh_token a save was given
    tokenEvents,            \* history: "tokens" events emitted
    probe,                  \* the input and the result of a function applied alone
    bulk,                   \* a listing over all task lists in progress
    writers,                \* processes of the program inside saveCredentials
    keyFileClientId,        \* the client identity written in gcp-oauth.keys.json
    action                  \* a TaskActions / TaskListActions call in progress

vars ==
    <<credFile, keyFile, oauthClientConfig, auth, googleAuth, clients,
      tokenListenerClients, proc, lastCarried, tokenEvents, probe, bulk, writers, keyFileClientId, action>>

Main == 0
AllProcs == {Main} \cup Procs

\* The part of the state that the credential operations read and write.
World ==
    [credFile |-> credFile, oauthClientConfig |-> oauthClientConfig, auth |-> auth,
     googleAuth |-> googleAuth, clients |-> clients,
     tokenListenerClients |-> tokenListenerClients, lastCarried |-> lastCarried]

SetWorld(w) ==
    /\ credFile' = w.credFile
    /\ oauthClientConfig' = w.oauthClientConfig
    /\ auth' = w.auth
    /\ googleAuth' = w.googleAuth
    /\ clients' = w.clients
    /\ tokenListenerClients' = w.tokenListenerClients
    /\ lastCarried' = w.lastCarried

\* saveCredentials(credentials): the merged record, and the state after the write
savedRecord(w, credentials) == mergedCredentials(storedOrEmpty(w.credFile), credentials)

saveCredentials(w, credentials) ==
    [w EXCEPT !.credFile = StoredFile(savedRecord(w, credentials)),
              !.lastCarried = OrTok(credentials.refresh_token, w.lastCarried)]

\* oauth.setCredentials(credentials)
setCredentials(w, oauth, credentials) ==
    [w EXCEPT !.clients[oauth].credentials = credentials]

\* google.options({ auth: oauth })
googleOptions(w, oauth) == [w EXCEPT !.googleAuth = oauth]

attachTokenListener_Always(w, oauth) ==
    [w EXCEPT !.clients[oauth].listeners = @ + 1,
              !.tokenListenerClients = @ \cup {oauth}]

\* attachTokenListener: no second listener on a client already in the WeakSet
attachTokenListener(w, oauth) ==
    IF oauth \in w.tokenListenerClients THEN w
    ELSE [w EXCEPT !.clients[oauth].listeners = @ + 1,
                   !.tokenListenerClients = @ \cup {oauth}]

\* The listener body: the record it saves for a "tokens" event on oauth
listenerCandidate(w, oauth, tokens) ==
    [Spread(w.clients[oauth].credentials, tokens)
        EXCEPT !.refresh_token =
            OrTok(tokens.refresh_token, w.clients[oauth].credentials.refresh_token)]

onTokens(w, oauth, tokens) ==
    setCredentials(saveCredentials(w, listenerCandidate(w, oauth, tokens)), oauth,
                   savedRecord(w, listenerCandidate(w, oauth, tokens)))

\* loadOAuthClientConfig throws unless the identity is cached or the key file is good
loadThrows(w) == w.oauthClientConfig = "null" /\ keyFile # "ok"

loadOAuthClientConfig(w) ==
    IF w.oauthClientConfig # "null" THEN w
    ELSE [w EXCEPT !.oauthClientConfig = keyFileClientId]

\* the identities a key file can hold
ClientIds == {"c1", "c2"}

NewClient == [credentials |-> EmptyCredentials, listeners |-> 0, identity |-> "null"]

\* getAuthClient: whether it throws, the state after it and the client it returns
getAuthClientThrows(w) == w.auth = 0 /\ loadThrows(w)

getAuthClient(w) ==
    IF w.auth # 0 THEN w
    ELSE attachTokenListener(
            [loadOAuthClientConfig(w) EXCEPT
                !.clients = Append(@, [NewClient EXCEPT
                                !.identity = loadOAuthClientConfig(w).oauthClientConfig]),
                                             !.auth = Len(w.clients) + 1],
            Len(w.clients) + 1)

\* authenticateAndSaveCredentials after authenticate() resolved with a client
\* holding credentials
authenticated(w, credentials) ==
    LET id == Len(w.clients) + 1
        w1 == [w EXCEPT !.clients = Append(@, [NewClient EXCEPT
                                                  !.credentials = credentials,
                                                  !.identity = keyFileClientId]),
                        !.auth = id]
        w2 == attachTokenListener(w1, id)
        w3 == saveCredentials(w2, credentials)
        w4 == setCredentials(w3, id, savedRecord(w2, credentials))
    IN  googleOptions(w4, id)

reloadFrom478_Inverted(w) ==
    IF ~readStoredCredentials(w.credFile).isNull THEN [next |-> "auth481", w |-> w]
    ELSE [next |-> "done", w |-> w]

\* reloadCredentials from line 478 on: "auth481" when it must authorize, "throw"
\* when getAuthClient throws, "done" otherwise
reloadFrom478(w) ==
    IF readStoredCredentials(w.credFile).isNull THEN [next |-> "auth481", w |-> w]
    ELSE IF getAuthClientThrows(w) THEN [next |-> "throw", w |-> w]
    ELSE [next |-> "done",
          w |-> googleOptions(
                    setCredentials(getAuthClient(w), getAuthClient(w).auth,
                                   readStoredCredentials(w.credFile).value),
                    getAuthClient(w).auth)]

\* reloadCredentials from its first line
reloadCredentials(w) ==
    IF ~existsSync(w.credFile) THEN [next |-> "auth475", w |-> w]
    ELSE reloadFrom478(w)

(***************************************************************************)
(* Processes: the entry point and the CallTool invocations.  The host      *)
(* sends at most one invocation per element of Procs; invocation p + 1     *)
(* arrives after invocation p, and may overlap it.                         *)
(***************************************************************************)
NoRequest == [name |-> <<>>, args |-> [k \in ArgKeys |-> Undef]]

NoResult == [status |-> "none", type |-> "", error |-> NoError, param |-> "", tool |-> <<>>]

Returned(text) == [NoResult EXCEPT !.status = "ok", !.type = text]

Thrown(type, error, param, tool) ==
    [status |-> "error", type |-> type, error |-> error, param |-> param, tool |-> tool]

FreshProc(pc) ==
    [pc |-> pc,
     at |-> "",                 \* the call site of the authenticate() in progress
     after |-> "",              \* what follows reloadCredentials in the caller
     retryCount |-> 1,          \* withAuthRetry's retryCount
     oauth |-> 0,               \* refreshAccessTokenIfPossible's local oauth
     refreshToken |-> None,     \* refreshAccessTokenIfPossible's local refreshToken
     request |-> NoRequest,
     calls |-> 0,               \* history: invocations of fn
     refreshCalls |-> 0,        \* history: oauth.refreshAccessToken() calls
     refreshed |-> 0,           \* history: refreshes that returned true
     authFlows |-> 0,           \* history: authenticate() calls
     authorized |-> 0,          \* history: authenticate() calls that resolved
     reloads |-> 0,             \* history: completed reloadCredentials calls
     repairs |-> 0,             \* history: entries into the repair branch
     tokenAtFailure |-> None,   \* history: auth's refresh_token when fn() first threw
     outcomes |-> <<>>,         \* history: how each fn() settled
     result |-> NoResult]

ConfigError == Thrown("config", NoError, "", <<>>)
AuthFlowError == Thrown("authflow", NoError, "", <<>>)

\* The request is over: a tool invocation reports, the entry point stops.  The
\* frames of withAuthRetry and refreshAccessTokenIfPossible are gone.
Finish(p, q, result) ==
    [q EXCEPT !.pc = IF p = Main
                     THEN (IF result.status = "ok" THEN "stopped" ELSE "failed")
                     ELSE "done",
              !.at = "", !.after = "", !.retryCount = 1,
              !.oauth = 0, !.refreshToken = None,
              !.result = result]

\* await authenticate(...) is entered from call site at
Authenticate(q, at) ==
    [q EXCEPT !.pc = "authenticate", !.at = at, !.authFlows = @ + 1]

retryCountForRetry_Unchanged(retryCount) == retryCount

\* the retryCount of the recursive call withAuthRetry(fn, 0)
retryCountForRetry(retryCount) == 0

\* withAuthRetry(fn, retryCount) invokes fn()
Invoke(q, retryCount) ==
    [q EXCEPT !.pc = "call", !.retryCount = retryCount, !.calls = @ + 1]

\* What the caller does once reloadCredentials has returned.
AfterReload(p, q) ==
    CASE q.after = "serve" -> [q EXCEPT !.pc = "serving", !.reloads = @ + 1]
      [] q.after = "confirm" ->
            Finish(p, [q EXCEPT !.reloads = @ + 1], Returned("Reauthorization complete"))
      [] q.after = "retry" ->
            Invoke([q EXCEPT !.reloads = @ + 1], retryCountForRetry(q.retryCount))

\* reloadCredentials stopped with r: it awaits an authorization, throws or returns.
ContinueReload(p, q, r) ==
    CASE r.next = "auth475" -> Authenticate(q, "reload475")
      [] r.next = "auth481" -> Authenticate(q, "reload481")
      [] r.next = "throw" -> Finish(p, q, ConfigError)
      [] r.next = "done" -> AfterReload(p, q)

(***************************************************************************)
(* Inputs.                                                                 *)
(***************************************************************************)
\* Errors the remote API throws in the system model: an expired credential as
\* googleapis reports it, and a not-found resource.
ErrInvalidCredentials ==
    MkError(Num(401), Num(401), Num(401), Num(401), TRUE, <<"b","a","d">>)
ErrNotFound == MkError(Num(404), Num(404), Num(404), Num(404), TRUE, <<"n","o","n","e">>)

RemoteErrors == {ErrInvalidCredentials, ErrNotFound}

\* Credentials an authorization, a refresh or a "tokens" event delivers: a new
\* access token, with or without a new refresh token.
FreshTokens == [access_token : {"a2"}, refresh_token : {"r2", None}]

\* Credentials the file may hold when the process starts.
StoredTokens == [access_token : {"a1", None}, refresh_token : {"r1", None}]

Args(tasklist, task, body) ==
    [k \in ArgKeys |-> CASE k = "tasklist" -> tasklist [] k = "task" -> task [] OTHER -> body]

\* Tool invocations the host sends in the system model.
SampleRequests ==
    {[name |-> toToolName(Ep("tasks", "get")), args |-> Args(Str("l"), Str("t"), Undef)],
     [name |-> toToolName(Ep("tasks", "get")), args |-> Args(Str("l"), Undef, Undef)],
     [name |-> reauthorize, args |-> Args(Undef, Undef, Undef)]}

NoProbe ==
    [error |-> NoError, verdict |-> "unclassified", stored |-> MissingFile,
     candidate |-> EmptyCredentials, returned |-> EmptyCredentials, saved |-> FALSE]

(***************************************************************************)
(* Initial state: nothing constructed, the two files as the operator left  *)
(* them.                                                                   *)
(***************************************************************************)
(***************************************************************************)
(* The listings over all task lists (Tasks.ts): TaskActions.list and       *)
(* TaskActions.search, both through TaskActions._list, and                 *)
(* TaskResources.list.  Each await withAuthRetry(...) is one suspension;   *)
(* it settles with the response or with the error withAuthRetry rethrows.  *)
(***************************************************************************)
MaxTaskLists == 2

BulkOps == {"TaskActions.list", "TaskActions.search", "TaskResources.list"}

\* a task of list l; list 0 stands for a task list entry without id
Item(l, title) == [list |-> l, title |-> title]

\* tasklists.list data.items: entry k has id k, or no id (0)
TaskListResponses ==
    UNION {{[k \in 1..n |-> IF hasId[k] THEN k ELSE 0] : hasId \in [1..n -> BOOLEAN]} :
             n \in 0..MaxTaskLists}

\* tasks.list data.items || [] for list l
TaskItemResponses(l) ==
    {<<>>, <<Item(l, <<"A">>)>>, <<Item(l, <<"A">>), Item(l, <<"b">>)>>}

NoBulk ==
    [op |-> "", pc |-> "idle", taskListId |-> 0, query |-> <<>>, listed |-> FALSE,
     taskLists |-> <<>>, i |-> 0, allTasks |-> <<>>, nextPageToken |-> 0,
     fetched |-> {},            \* history: loop positions whose call resolved
     failed |-> {},             \* history: loop positions whose call threw
     status |-> "none", items |-> <<>>]

\* the filter of TaskActions.search on title; the tasks carry no notes
matchesQuery(task, query) == includes(toLowerCase(task.title), toLowerCase(query))

\* what the operation returns from the tasks it collected
bulkReturn(b, allTasks) ==
    [b EXCEPT !.pc = "done", !.status = "ok", !.allTasks = allTasks,
              !.items = IF b.op = "TaskActions.search"
                        THEN SelectSeq(allTasks, LAMBDA task : matchesQuery(task, b.query))
                        ELSE allTasks]

bulkThrow(b) == [b EXCEPT !.pc = "done", !.status = "error"]

\* _list guards the call with if (taskList.id); TaskResources.list has no guard
RECURSIVE nextIndex(_, _, _)
nextIndex(op, taskLists, i) ==
    IF i > Len(taskLists) THEN i
    ELSE IF op # "TaskResources.list" /\ taskLists[i] = 0
         THEN nextIndex(op, taskLists, i + 1)
         ELSE i

\* the for loop from position i up to its next await, or to the return
continueLoop(b, i) ==
    LET j == nextIndex(b.op, b.taskLists, i)
    IN  IF j > Len(b.taskLists) THEN bulkReturn([b EXCEPT !.i = j], b.allTasks)
        ELSE [b EXCEPT !.i = j, !.pc = "tasks"]

\* the try/catch around the call inside the loop: _list has one,
\* TaskResources.list has none
catchesInLoop(op) == op # "TaskResources.list"

(***************************************************************************)
(* saveCredentials in several processes of the program that share the      *)
(* credential file (the server and "node index.js auth" beside it).        *)
(* Inside one process the function runs to completion; between processes   *)
(* its readFileSync and its writeFileSync are separate steps.              *)
(***************************************************************************)
NumWriters == 2
Writers == 1..NumWriters

NoWrite ==
    [writer |-> 0, base |-> EmptyCredentials, before |-> MissingFile,
     candidate |-> EmptyCredentials, written |-> EmptyCredentials]

NoWriters ==
    [save |-> [w \in Writers |->
                  [pc |-> "idle", candidate |-> EmptyCredentials,
                   existingCredentials |-> EmptyCredentials]],
     lastWrite |-> NoWrite]         \* history: the latest writeFileSync

(***************************************************************************)
(* TaskActions.move (Tasks.ts) and TaskListActions.create / update          *)
(* (TaskLists.ts): argument checks, then the remote calls in order.  Each   *)
(* await withAuthRetry(...) settles with the response or with the error     *)
(* withAuthRetry rethrows; the remote store changes only when it resolves.  *)
(***************************************************************************)
ActionOps == {"TaskActions.move", "TaskListActions.create", "TaskListActions.update"}
ActionArgKeys == {"sourceTaskListId", "destinationTaskListId", "taskId", "id", "title"}
ActionArgValues == {Undef, Null, Str(""), Num(0), Str("x")}

NoAction ==
    [op |-> "", pc |-> "idle", args |-> [k \in ActionArgKeys |-> Undef],
     calls |-> <<>>,            \* history: the remote methods called, in order
     existed |-> FALSE,         \* history: the task was in the source list at first
     inSource |-> FALSE,        \* remote: the task is in the source list
     inDestination |-> FALSE,   \* remote: the copy is in the destination list
     status |-> "none", message |-> ""]

Check(key, message) == [key |-> key, message |-> message]

checks_TitleUnchecked(op) ==
    CASE op = "TaskActions.move" ->
            <<Check("sourceTaskListId", "Source task list ID is required"),
              Check("destinationTaskListId", "Destination task list ID is required"),
              Check("taskId", "Task ID is required")>>
      [] op = "TaskListActions.create" -> <<>>
      [] op = "TaskListActions.update" -> <<Check("id", "Task list ID is required")>>

\* the if (!argument) throw new Error(...) statements of each operation, in order
checks(op) ==
    CASE op = "TaskActions.move" ->
            <<Check("sourceTaskListId", "Source task list ID is required"),
              Check("destinationTaskListId", "Destination task list ID is required"),
              Check("taskId", "Task ID is required")>>
      [] op = "TaskListActions.create" ->
            <<Check("title", "Task list title is required")>>
      [] op = "TaskListActions.update" ->
            <<Check("id", "Task list ID is required"),
              Check("title", "Task list title is required")>>

remoteCalls_DeleteBeforeInsert(op) ==
    CASE op = "TaskActions.move" -> <<"tasks.get", "tasks.delete", "tasks.insert">>
      [] op = "TaskListActions.create" -> <<"tasklists.insert">>
      [] op = "TaskListActions.update" -> <<"tasklists.update">>

\* the awaited remote calls of each operation, in program order
remoteCalls(op) ==
    CASE op = "TaskActions.move" -> <<"tasks.get", "tasks.insert", "tasks.delete">>
      [] op = "TaskListActions.create" -> <<"tasklists.insert">>
      [] op = "TaskListActions.update" -> <<"tasklists.update">>

\* position in checks(op) of the first check that throws, 0 if none
firstFailedCheck(op, args) ==
    IF \E i \in 1..Len(checks(op)) : ~Truthy(args[checks(op)[i].key])
    THEN CHOOSE i \in 1..Len(checks(op)) :
            /\ ~Truthy(args[checks(op)[i].key])
            /\ \A j \in 1..(i - 1) : Truthy(args[checks(op)[j].key])
    ELSE 0

\* what a resolved call did to the remote store
remoteEffect(a, method) ==
    CASE method = "tasks.insert" -> [a EXCEPT !.inDestination = TRUE]
      [] method = "tasks.delete" -> [a EXCEPT !.inSource = FALSE]
      [] OTHER -> a

InitFiles == {MissingFile, CorruptFile} \cup {StoredFile(c) : c \in StoredTokens}

Init ==
    /\ credFile \in InitFiles
    /\ keyFile \in {"missing", "invalid", "ok"}
    /\ oauthClientConfig = "null"
    /\ auth = 0
    /\ googleAuth = 0
    /\ clients = <<>>
    /\ tokenListenerClients = {}
    /\ proc = [p \in AllProcs |-> IF p = Main THEN FreshProc("boot") ELSE FreshProc("idle")]
    /\ lastCarried = storedOrEmpty(credFile).refresh_token
    /\ tokenEvents = 0
    /\ probe = NoProbe
    /\ bulk = NoBulk
    /\ writers = NoWriters
    /\ keyFileClientId = "c1"
    /\ action = NoAction

(***************************************************************************)
(* The entry point (lines 515-533).                                        *)
(***************************************************************************)
\* node index.js auth
BootAuth ==
    /\ proc[Main].pc = "boot"
    /\ proc' = [proc EXCEPT ![Main] = Authenticate([@ EXCEPT !.after = "exit"], "cli")]
    /\ UNCHANGED <<credFile, keyFile, oauthClientConfig, auth, googleAuth, clients,
                   tokenListenerClients, lastCarried, tokenEvents, probe, bulk, writers, keyFileClientId, action>>

\* node index.js: loadCredentialsAndRunServer
BootServer ==
    /\ proc[Main].pc = "boot"
    /\ IF ~existsSync(credFile)
       THEN /\ proc' = [proc EXCEPT ![Main].pc = "exited"]
            /\ SetWorld(World)
       ELSE LET r == reloadCredentials(World)
            IN  /\ proc' = [proc EXCEPT ![Main] =
                              ContinueReload(Main, [@ EXCEPT !.after = "serve"], r)]
                /\ SetWorld(r.w)
    /\ UNCHANGED <<keyFile, tokenEvents, probe, bulk, writers, keyFileClientId, action>>

(***************************************************************************)
(* authenticate() settles (authenticateAndSaveCredentials, lines 456-470,  *)
(* and whatever its caller runs up to the next await).                     *)
(***************************************************************************)
AuthenticateFails_InvokesAgain(p) ==
    /\ proc[p].pc = "authenticate"
    /\ proc' = [proc EXCEPT ![p] =
                  IF @.at = "retry" THEN Invoke(@, 0) ELSE Finish(p, @, AuthFlowError)]
    /\ UNCHANGED <<credFile, keyFile, oauthClientConfig, auth, googleAuth, clients,
                   tokenListenerClients, lastCarried, tokenEvents, probe, bulk, writers,
                   keyFileClientId, action>>

AuthenticateFails(p) ==
    /\ proc[p].pc = "authenticate"
    /\ proc' = [proc EXCEPT ![p] = Finish(p, @, AuthFlowError)]
    /\ UNCHANGED <<credFile, keyFile, oauthClientConfig, auth, googleAuth, clients,
                   tokenListenerClients, lastCarried, tokenEvents, probe, bulk, writers, keyFileClientId, action>>

\* authenticate() reads the key file itself, so it resolves only with a good one;
\* each resolution constructs a new client.
AuthenticateReturns(p, credentials) ==
    /\ proc[p].pc = "authenticate"
    /\ keyFile = "ok"
    /\ Len(clients) < MaxClients
    /\ LET w == authenticated(World, credentials)
           q == [proc[p] EXCEPT !.authorized = @ + 1]
       IN  CASE q.at = "cli" ->
                    /\ proc' = [proc EXCEPT ![p] = Finish(p, q, Returned("Credentials saved"))]
                    /\ SetWorld(w)
             [] q.at \in {"tool", "retry"} ->
                    /\ proc' = [proc EXCEPT ![p] = ContinueReload(p, q, reloadCredentials(w))]
                    /\ SetWorld(reloadCredentials(w).w)
             [] q.at = "reload475" ->
                    /\ proc' = [proc EXCEPT ![p] = ContinueReload(p, q, reloadFrom478(w))]
                    /\ SetWorld(reloadFrom478(w).w)
             [] q.at = "reload481" ->
                    /\ proc' = [proc EXCEPT ![p] = AfterReload(p, q)]
                    /\ SetWorld(w)
    /\ UNCHANGED <<keyFile, tokenEvents, probe, bulk, writers, keyFileClientId, action>>

(***************************************************************************)
(* The CallTool handler (lines 248-302) up to its first await.             *)
(***************************************************************************)
\* what the handler does with a request that resolved to endpointName
Dispatch(p, q, endpointName) ==
    LET endpoint == taskApiEndpoints(endpointName)
        params == ParamsOf(q.request.args)
        i == FirstMissing(endpoint, params)
    IN  IF i # 0
        THEN Finish(p, q, Thrown("missing", NoError, endpoint.requiredParams[i],
                                 q.request.name))
        ELSE Invoke(q, 1)

CallToolFrom_NoBypass(p, requests) ==
    /\ p \in Procs
    /\ proc[Main].pc = "serving"
    /\ proc[p].pc = "idle"
    /\ \A earlier \in Procs : earlier < p => proc[earlier].pc # "idle"
    /\ \E request \in requests :
          LET q == [FreshProc("idle") EXCEPT !.request = request]
          IN  proc' = [proc EXCEPT ![p] =
                IF ~Resolves(request.name)
                THEN Finish(p, q, Thrown("Tool not found", NoError, "", request.name))
                ELSE Dispatch(p, q, toolNameToEndpoint(request.name))]
    /\ UNCHANGED <<credFile, keyFile, oauthClientConfig, auth, googleAuth, clients,
                   tokenListenerClients, lastCarried, tokenEvents, probe, bulk, writers, keyFileClientId, action>>

CallToolFrom(p, requests) ==
    /\ p \in Procs
    /\ proc[Main].pc = "serving"
    /\ proc[p].pc = "idle"
    /\ \A earlier \in Procs : earlier < p => proc[earlier].pc # "idle"
    /\ \E request \in requests :
          LET q == [FreshProc("idle") EXCEPT !.request = request]
          IN  proc' = [proc EXCEPT ![p] =
                IF request.name = reauthorize
                THEN Authenticate([q EXCEPT !.after = "confirm"], "tool")
                ELSE IF ~Resolves(request.name)
                THEN Finish(p, q, Thrown("Tool not found", NoError, "", request.name))
                ELSE Dispatch(p, q, toolNameToEndpoint(request.name))]
    /\ UNCHANGED <<credFile, keyFile, oauthClientConfig, auth, googleAuth, clients,
                   tokenListenerClients, lastCarried, tokenEvents, probe, bulk, writers, keyFileClientId, action>>

CallTool(p) == CallToolFrom(p, SampleRequests)

(***************************************************************************)
(* withAuthRetry (lines 490-513): fn() settles.                            *)
(***************************************************************************)
Resolved == [ok |-> TRUE, error |-> NoError]
Rejected(error) == [ok |-> FALSE, error |-> error]

FnReturns(p) ==
    /\ proc[p].pc = "call"
    /\ proc' = [proc EXCEPT ![p] =
                  Finish(p, [@ EXCEPT !.outcomes = Append(@, Resolved)], Returned("data"))]
    /\ UNCHANGED <<credFile, keyFile, oauthClientConfig, auth, googleAuth, clients,
                   tokenListenerClients, lastCarried, tokenEvents, probe, bulk, writers, keyFileClientId, action>>

shouldRepair_AnyError(error, retryCount) == retryCount > 0

shouldRepair_NoBudget(error, retryCount) == isAuthError(error)

\* isAuthError(error) && retryCount > 0
shouldRepair(error, retryCount) == isAuthError(error) /\ retryCount > 0

\* refreshAccessTokenIfPossible up to its await (lines 429-438), then, when it
\* returned false at once, authenticateAndSaveCredentials up to its await
StartRepair_AlwaysRefresh(p, q, w) ==
    IF getAuthClientThrows(w) THEN Finish(p, q, ConfigError)
    ELSE LET oauth == getAuthClient(w).auth
             refreshToken == getAuthClient(w).clients[oauth].credentials.refresh_token
         IN  [q EXCEPT !.pc = "refresh", !.oauth = oauth,
                       !.refreshToken = refreshToken, !.refreshCalls = @ + 1]

StartRepair(p, q, w) ==
    IF getAuthClientThrows(w) THEN Finish(p, q, ConfigError)
    ELSE LET oauth == getAuthClient(w).auth
             refreshToken == getAuthClient(w).clients[oauth].credentials.refresh_token
         IN  IF refreshToken = None
             THEN Authenticate([q EXCEPT !.after = "retry"], "retry")
             ELSE [q EXCEPT !.pc = "refresh", !.oauth = oauth,
                            !.refreshToken = refreshToken, !.refreshCalls = @ + 1]

FnThrows(p, error) ==
    /\ proc[p].pc = "call"
    /\ LET q == [proc[p] EXCEPT
                    !.outcomes = Append(@, Rejected(error)),
                    !.tokenAtFailure =
                        IF proc[p].calls = 1 /\ auth # 0
                        THEN clients[auth].credentials.refresh_token ELSE @]
       IN  IF shouldRepair(error, q.retryCount)
           THEN /\ proc' = [proc EXCEPT ![p] =
                              StartRepair(p, [q EXCEPT !.repairs = @ + 1], World)]
                /\ SetWorld(IF getAuthClientThrows(World) THEN World
                            ELSE getAuthClient(World))
           ELSE /\ proc' = [proc EXCEPT ![p] =
                              Finish(p, q, Thrown("remote", error, "", <<>>))]
                /\ SetWorld(World)
    /\ UNCHANGED <<keyFile, tokenEvents, probe, bulk, writers, keyFileClientId, action>>

(***************************************************************************)
(* refreshAccessTokenIfPossible (lines 429-454): the refresh call settles. *)
(***************************************************************************)
refreshCandidate_ResponseWins(w, oauth, refreshToken, refreshedCredentials) ==
    Spread(w.clients[oauth].credentials, refreshedCredentials)

\* the record refreshAccessTokenIfPossible hands to saveCredentials
refreshCandidate(w, oauth, refreshToken, refreshedCredentials) ==
    [Spread(w.clients[oauth].credentials, refreshedCredentials)
        EXCEPT !.refresh_token = refreshToken]

RefreshReturns_FallsThrough(p, refreshedCredentials) ==
    /\ proc[p].pc = "refresh"
    /\ LET q == proc[p]
           candidate == refreshCandidate(World, q.oauth, q.refreshToken, refreshedCredentials)
           w1 == saveCredentials(World, candidate)
           w2 == setCredentials(w1, q.oauth, savedRecord(World, candidate))
       IN  /\ SetWorld(googleOptions(w2, q.oauth))
           /\ proc' = [proc EXCEPT ![p] =
                         Authenticate([q EXCEPT !.refreshed = @ + 1, !.after = "retry"],
                                      "retry")]
    /\ UNCHANGED <<keyFile, tokenEvents, probe, bulk, writers, keyFileClientId, action>>

RefreshReturns(p, refreshedCredentials) ==
    /\ proc[p].pc = "refresh"
    /\ LET q == proc[p]
           candidate == refreshCandidate(World, q.oauth, q.refreshToken, refreshedCredentials)
           w1 == saveCredentials(World, candidate)
           w2 == setCredentials(w1, q.oauth, savedRecord(World, candidate))
       IN  /\ SetWorld(googleOptions(w2, q.oauth))
           /\ proc' = [proc EXCEPT ![p] =
                         Invoke([q EXCEPT !.refreshed = @ + 1],
                                retryCountForRetry(q.retryCount))]
    /\ UNCHANGED <<keyFile, tokenEvents, probe, bulk, writers, keyFileClientId, action>>

RefreshFails_Raises(p) ==
    /\ proc[p].pc = "refresh"
    /\ proc' = [proc EXCEPT ![p] =
                  Finish(p, @, Thrown("remote", ErrInvalidCredentials, "", <<>>))]
    /\ UNCHANGED <<credFile, keyFile, oauthClientConfig, auth, googleAuth, clients,
                   tokenListenerClients, lastCarried, tokenEvents, probe, bulk, writers, keyFileClientId, action>>

RefreshFails(p) ==
    /\ proc[p].pc = "refresh"
    /\ proc' = [proc EXCEPT ![p] = Authenticate([@ EXCEPT !.after = "retry"], "retry")]
    /\ UNCHANGED <<credFile, keyFile, oauthClientConfig, auth, googleAuth, clients,
                   tokenListenerClients, lastCarried, tokenEvents, probe, bulk, writers, keyFileClientId, action>>

(***************************************************************************)
(* The "tokens" listener (lines 378-385).  The client library emits the    *)
(* event while a request or a refresh runs on the client.                  *)
(***************************************************************************)
RECURSIVE runListeners(_, _, _, _)
runListeners(w, oauth, tokens, n) ==
    IF n = 0 THEN w ELSE runListeners(onTokens(w, oauth, tokens), oauth, tokens, n - 1)

InUse(oauth) ==
    \E p \in Procs : \/ proc[p].pc = "call" /\ googleAuth = oauth
                     \/ proc[p].pc = "refresh" /\ proc[p].oauth = oauth

TokensEvent(oauth, tokens) ==
    /\ oauth \in 1..Len(clients)
    /\ InUse(oauth)
    /\ tokenEvents < MaxTokenEvents
    /\ tokenEvents' = tokenEvents + 1
    /\ SetWorld(runListeners(World, oauth, tokens, clients[oauth].listeners))
    /\ UNCHANGED <<keyFile, proc, probe, bulk, writers, keyFileClientId, action>>

(***************************************************************************)
(* The system.                                                             *)
(***************************************************************************)
Next ==
    \/ BootAuth
    \/ BootServer
    \/ \E p \in AllProcs : AuthenticateFails(p)
    \/ \E p \in AllProcs : \E c \in FreshTokens : AuthenticateReturns(p, c)
    \/ \E p \in Procs : CallTool(p)
    \/ \E p \in Procs : FnReturns(p)
    \/ \E p \in Procs : \E e \in RemoteErrors : FnThrows(p, e)
    \/ \E p \in Procs : \E c \in FreshTokens : RefreshReturns(p, c)
    \/ \E p \in Procs : RefreshFails(p)
    \/ \E oauth \in 1..MaxClients : \E t \in FreshTokens : TokensEvent(oauth, t)

Spec == Init /\ [][Next]_vars

(***************************************************************************)
(* isAuthError applied to every error shape of ErrorSpace.                 *)
(***************************************************************************)
CaseMasks ==
    {{}, {1}, {1, 9}, {i \in 1..19 : i % 2 = 1}, 1..19}

CaseVariants(word) ==
    {[i \in 1..Len(word) |-> IF i \in mask THEN UpperChar(word[i]) ELSE word[i]] :
        mask \in CaseMasks}

Messages ==
    CaseVariants(invalid_grant)
    \cup {<<"4","0","0",":"," ">> \o m \o <<".">> : m \in CaseVariants(invalid_grant)}
    \cup {toUpperCase(unauthorized), invalid_token, authentication, invalid_credentials}
    \cup {<<>>, <<"q","u","o","t","a">>, <<"i","n","v","a","l","i","d","-","g","r","a","n","t">>}

CodeValues ==
    {Undef, Num(0), Num(401), Num(403), Num(500), Str("401"), Str("ECONNRESET"),
     Str("UNAUTHENTICATED"), Str("PERMISSION_DENIED")}
StatusValues == {Undef, Num(401), Num(403), Num(500)}
ResponseCodeValues == {Undef, Num(403), Str("UNAUTHENTICATED"), Str("PERMISSION_DENIED")}

ErrorSpace ==
    {NoError}
    \cup {MkError(c, st, rs, rc, FALSE, <<>>) :
            c \in CodeValues, st \in StatusValues, rs \in StatusValues,
            rc \in ResponseCodeValues}
    \cup {MkError(c, st, Undef, rc, TRUE, m) :
            c \in CodeValues, st \in StatusValues, rc \in {Undef, Str("UNAUTHENTICATED")},
            m \in Messages}

InitClassify ==
    /\ credFile = MissingFile
    /\ keyFile = "ok"
    /\ oauthClientConfig = "null"
    /\ auth = 0
    /\ googleAuth = 0
    /\ clients = <<>>
    /\ tokenListenerClients = {}
    /\ proc = [p \in AllProcs |-> IF p = Main THEN FreshProc("boot") ELSE FreshProc("idle")]
    /\ lastCarried = None
    /\ tokenEvents = 0
    /\ probe \in {[NoProbe EXCEPT !.error = e] : e \in ErrorSpace}
    /\ bulk = NoBulk
    /\ writers = NoWriters
    /\ keyFileClientId = "c1"
    /\ action = NoAction

Classify ==
    /\ probe.verdict = "unclassified"
    /\ probe' = [probe EXCEPT !.verdict = IF isAuthError(probe.error) THEN "auth" ELSE "other"]
    /\ UNCHANGED <<credFile, keyFile, oauthClientConfig, auth, googleAuth, clients,
                   tokenListenerClients, proc, lastCarried, tokenEvents, bulk, writers, keyFileClientId, action>>

NextClassify == Classify

SpecClassify == InitClassify /\ [][NextClassify]_vars

(***************************************************************************)
(* saveCredentials applied to every stored file and every candidate.       *)
(***************************************************************************)
AllFiles == {MissingFile, CorruptFile} \cup {StoredFile(c) : c \in Credentials}

InitSave ==
    /\ credFile \in AllFiles
    /\ keyFile = "ok"
    /\ oauthClientConfig = "null"
    /\ auth = 0
    /\ googleAuth = 0
    /\ clients = <<>>
    /\ tokenListenerClients = {}
    /\ proc = [p \in AllProcs |-> IF p = Main THEN FreshProc("boot") ELSE FreshProc("idle")]
    /\ lastCarried = storedOrEmpty(credFile).refresh_token
    /\ tokenEvents = 0
    /\ probe = NoProbe
    /\ bulk = NoBulk
    /\ writers = NoWriters
    /\ keyFileClientId = "c1"
    /\ action = NoAction

Save(credentials) ==
    /\ SetWorld(saveCredentials(World, credentials))
    /\ probe' = [probe EXCEPT !.stored = credFile, !.candidate = credentials,
                              !.returned = savedRecord(World, credentials),
                              !.saved = TRUE]
    /\ UNCHANGED <<keyFile, proc, tokenEvents, bulk, writers, keyFileClientId, action>>

NextSave == \E credentials \in Credentials : Save(credentials)

SpecSave == InitSave /\ [][NextSave]_vars

(***************************************************************************)
(* The dispatcher on every request of AllRequests, sent to a server that   *)
(* started with good files.                                                *)
(***************************************************************************)
ParamValues == {Undef, Null, Str(""), Num(0), Bool(FALSE), Str("x")}
BodyValues == {Undef, Null, Obj}

RequestNames ==
    {toToolName(e) : e \in EndpointNames} \cup EndpointNames
    \cup {reauthorize, <<"tasks", "-", "purge">>, <<"constructor">>}

AllRequests ==
    {[name |-> n, args |-> Args(tl, t, b)] :
        n \in RequestNames, tl \in ParamValues, t \in ParamValues, b \in BodyValues}

InitDispatch ==
    /\ Init
    /\ keyFile = "ok"
    /\ credFile = StoredFile([access_token |-> "a1", refresh_token |-> "r1"])

NextDispatch ==
    \/ BootServer
    \/ \E c \in FreshTokens : AuthenticateReturns(1, c)
    \/ AuthenticateFails(1)
    \/ CallToolFrom(1, AllRequests)
    \/ FnReturns(1)
    \/ \E e \in RemoteErrors : FnThrows(1, e)
    \/ \E c \in FreshTokens : RefreshReturns(1, c)
    \/ RefreshFails(1)

SpecDispatch == InitDispatch /\ [][NextDispatch]_vars

(***************************************************************************)
(* The listings over all task lists: each request and each settlement.     *)
(***************************************************************************)
BulkStart(op, taskListId) ==
    /\ bulk.pc = "idle"
    /\ bulk' = [NoBulk EXCEPT
                  !.op = op, !.taskListId = taskListId, !.query = <<"a">>,
                  !.pc = IF op # "TaskResources.list" /\ taskListId # 0
                         THEN "single" ELSE "tasklists"]
    /\ UNCHANGED <<credFile, keyFile, oauthClientConfig, auth, googleAuth, clients,
                   tokenListenerClients, proc, lastCarried, tokenEvents, probe, writers, keyFileClientId, action>>

TaskListsReturns(taskLists) ==
    /\ bulk.pc = "tasklists"
    /\ bulk' = continueLoop([bulk EXCEPT !.taskLists = taskLists, !.listed = TRUE], 1)
    /\ UNCHANGED <<credFile, keyFile, oauthClientConfig, auth, googleAuth, clients,
                   tokenListenerClients, proc, lastCarried, tokenEvents, probe, writers, keyFileClientId, action>>

TaskListsThrows ==
    /\ bulk.pc = "tasklists"
    /\ bulk' = bulkThrow(bulk)
    /\ UNCHANGED <<credFile, keyFile, oauthClientConfig, auth, googleAuth, clients,
                   tokenListenerClients, proc, lastCarried, tokenEvents, probe, writers, keyFileClientId, action>>

TasksReturns(more) ==
    /\ bulk.pc \in {"single", "tasks"}
    /\ \E items \in TaskItemResponses(IF bulk.pc = "single" THEN bulk.taskListId
                                      ELSE bulk.taskLists[bulk.i]) :
          bulk' = IF bulk.pc = "single" THEN bulkReturn(bulk, items)
                  ELSE continueLoop(
                          [bulk EXCEPT !.allTasks = @ \o items,
                                       !.fetched = @ \cup {bulk.i},
                                       !.nextPageToken = IF more THEN bulk.i ELSE @],
                          bulk.i + 1)
    /\ UNCHANGED <<credFile, keyFile, oauthClientConfig, auth, googleAuth, clients,
                   tokenListenerClients, proc, lastCarried, tokenEvents, probe, writers, keyFileClientId, action>>

TasksThrows ==
    /\ bulk.pc \in {"single", "tasks"}
    /\ bulk' = IF bulk.pc = "single" THEN bulkReturn(bulk, <<>>)
               ELSE IF catchesInLoop(bulk.op)
                    THEN continueLoop([bulk EXCEPT !.failed = @ \cup {bulk.i}], bulk.i + 1)
                    ELSE bulkThrow([bulk EXCEPT !.failed = @ \cup {bulk.i}])
    /\ UNCHANGED <<credFile, keyFile, oauthClientConfig, auth, googleAuth, clients,
                   tokenListenerClients, proc, lastCarried, tokenEvents, probe, writers, keyFileClientId, action>>

InitBulk ==
    /\ credFile = StoredFile([access_token |-> "a1", refresh_token |-> "r1"])
    /\ keyFile = "ok"
    /\ oauthClientConfig = "null"
    /\ auth = 0
    /\ googleAuth = 0
    /\ clients = <<>>
    /\ tokenListenerClients = {}
    /\ proc = [p \in AllProcs |-> IF p = Main THEN FreshProc("boot") ELSE FreshProc("idle")]
    /\ lastCarried = "r1"
    /\ tokenEvents = 0
    /\ probe = NoProbe
    /\ bulk = NoBulk
    /\ writers = NoWriters
    /\ keyFileClientId = "c1"
    /\ action = NoAction

NextBulk ==
    \/ \E op \in BulkOps, taskListId \in {0, 1} : BulkStart(op, taskListId)
    \/ \E taskLists \in TaskListResponses : TaskListsReturns(taskLists)
    \/ TaskListsThrows
    \/ \E more \in BOOLEAN : TasksReturns(more)
    \/ TasksThrows

SpecBulk == InitBulk /\ [][NextBulk]_vars

(***************************************************************************)
(* saveCredentials step by step in each process sharing the file.          *)
(***************************************************************************)
\* const existingCredentials = readStoredCredentials() || {}
SaveReads(w, credentials) ==
    /\ writers.save[w].pc = "idle"
    /\ writers' = [writers EXCEPT
                     !.save[w] = [pc |-> "read", candidate |-> credentials,
                                  existingCredentials |-> storedOrEmpty(credFile)]]
    /\ UNCHANGED <<credFile, keyFile, oauthClientConfig, auth, googleAuth, clients,
                   tokenListenerClients, proc, lastCarried, tokenEvents, probe, bulk,
                   keyFileClientId, action>>

SaveWrites_FreshBase(w) ==
    /\ writers.save[w].pc = "read"
    /\ LET c == writers.save[w].candidate
           merged == mergedCredentials(storedOrEmpty(credFile), c)
       IN  /\ credFile' = StoredFile(merged)
           /\ lastCarried' = OrTok(c.refresh_token, lastCarried)
           /\ writers' = [writers EXCEPT
                            !.save[w].pc = "written",
                            !.lastWrite =
                                [writer |-> w, base |-> writers.save[w].existingCredentials,
                                 before |-> credFile, candidate |-> c, written |-> merged]]
    /\ UNCHANGED <<keyFile, oauthClientConfig, auth, googleAuth, clients,
                   tokenListenerClients, proc, tokenEvents, probe, bulk, keyFileClientId, action>>

\* fs.writeFileSync(credentialsPath, JSON.stringify(mergedCredentials, null, 2))
SaveWrites(w) ==
    /\ writers.save[w].pc = "read"
    /\ LET c == writers.save[w].candidate
           merged == mergedCredentials(writers.save[w].existingCredentials, c)
       IN  /\ credFile' = StoredFile(merged)
           /\ lastCarried' = OrTok(c.refresh_token, lastCarried)
           /\ writers' = [writers EXCEPT
                            !.save[w].pc = "written",
                            !.lastWrite =
                                [writer |-> w, base |-> writers.save[w].existingCredentials,
                                 before |-> credFile, candidate |-> c, written |-> merged]]
    /\ UNCHANGED <<keyFile, oauthClientConfig, auth, googleAuth, clients,
                   tokenListenerClients, proc, tokenEvents, probe, bulk, keyFileClientId, action>>

InitWriters ==
    /\ credFile \in {MissingFile, CorruptFile,
                     StoredFile([access_token |-> "a1", refresh_token |-> "r1"])}
    /\ keyFile = "ok"
    /\ oauthClientConfig = "null"
    /\ auth = 0
    /\ googleAuth = 0
    /\ clients = <<>>
    /\ tokenListenerClients = {}
    /\ proc = [p \in AllProcs |-> IF p = Main THEN FreshProc("boot") ELSE FreshProc("idle")]
    /\ lastCarried = storedOrEmpty(credFile).refresh_token
    /\ tokenEvents = 0
    /\ probe = NoProbe
    /\ bulk = NoBulk
    /\ writers = NoWriters
    /\ keyFileClientId = "c1"
    /\ action = NoAction

NextWriters ==
    \/ \E w \in Writers, credentials \in Credentials : SaveReads(w, credentials)
    \/ \E w \in Writers : SaveWrites(w)

SpecWriters == InitWriters /\ [][NextWriters]_vars

(***************************************************************************)
(* The server with an operator who replaces the key file while it runs.    *)
(***************************************************************************)
\* gcp-oauth.keys.json is replaced by the keys of another OAuth client
KeyFileEdited(clientId) ==
    /\ keyFile = "ok"
    /\ clientId # keyFileClientId
    /\ keyFileClientId' = clientId
    /\ UNCHANGED <<credFile, keyFile, oauthClientConfig, auth, googleAuth, clients,
                   tokenListenerClients, proc, lastCarried, tokenEvents, probe, bulk,
                   writers, action>>

NextIdentity ==
    \/ \E clientId \in ClientIds : KeyFileEdited(clientId)
    \/ BootServer
    \/ \E p \in {Main, 1}, credentials \in FreshTokens : AuthenticateReturns(p, credentials)
    \/ \E p \in {Main, 1} : AuthenticateFails(p)
    \/ CallToolFrom(1, SampleRequests)
    \/ FnReturns(1)
    \/ \E error \in RemoteErrors : FnThrows(1, error)
    \/ \E credentials \in FreshTokens : RefreshReturns(1, credentials)
    \/ RefreshFails(1)

SpecIdentity == Init /\ [][NextIdentity]_vars

(***************************************************************************)
(* TaskActions.move and TaskListActions.create / update, step by step.     *)
(***************************************************************************)
\* the operation is called: it throws on its checks or awaits its first call
ActionStart(op, args) ==
    /\ action.pc = "idle"
    /\ LET a == [action EXCEPT !.op = op, !.args = args]
           i == firstFailedCheck(op, args)
       IN  action' = IF i # 0
                     THEN [a EXCEPT !.pc = "done", !.status = "error",
                                    !.message = checks(op)[i].message]
                     ELSE [a EXCEPT !.pc = "await", !.calls = <<remoteCalls(op)[1]>>]
    /\ UNCHANGED <<credFile, keyFile, oauthClientConfig, auth, googleAuth, clients,
                   tokenListenerClients, proc, lastCarried, tokenEvents, probe, bulk,
                   writers, keyFileClientId>>

\* the awaited call resolves: the next call is issued, or the operation returns
RemoteReturns ==
    /\ action.pc = "await"
    /\ action.calls[Len(action.calls)] = "tasks.get" => action.inSource
    /\ LET a == remoteEffect(action, action.calls[Len(action.calls)])
           n == Len(action.calls)
       IN  action' = IF n < Len(remoteCalls(a.op))
                     THEN [a EXCEPT !.calls = Append(@, remoteCalls(a.op)[n + 1])]
                     ELSE [a EXCEPT !.pc = "done", !.status = "ok"]
    /\ UNCHANGED <<credFile, keyFile, oauthClientConfig, auth, googleAuth, clients,
                   tokenListenerClients, proc, lastCarried, tokenEvents, probe, bulk,
                   writers, keyFileClientId>>

\* the awaited call rejects: nothing catches it
RemoteThrows ==
    /\ action.pc = "await"
    /\ action' = [action EXCEPT !.pc = "done", !.status = "error", !.message = "remote"]
    /\ UNCHANGED <<credFile, keyFile, oauthClientConfig, auth, googleAuth, clients,
                   tokenListenerClients, proc, lastCarried, tokenEvents, probe, bulk,
                   writers, keyFileClientId>>

InitActions ==
    /\ credFile = StoredFile([access_token |-> "a1", refresh_token |-> "r1"])
    /\ keyFile = "ok"
    /\ oauthClientConfig = "null"
    /\ auth = 0
    /\ googleAuth = 0
    /\ clients = <<>>
    /\ tokenListenerClients = {}
    /\ proc = [p \in AllProcs |-> IF p = Main THEN FreshProc("boot") ELSE FreshProc("idle")]
    /\ lastCarried = "r1"
    /\ tokenEvents = 0
    /\ probe = NoProbe
    /\ bulk = NoBulk
    /\ writers = NoWriters
    /\ keyFileClientId = "c1"
    /\ action \in {[NoAction EXCEPT !.existed = e, !.inSource = e] : e \in BOOLEAN}

ActionRequests(op) ==
    CASE op = "TaskActions.move" ->
            {[k \in ActionArgKeys |->
                CASE k = "sourceTaskListId" -> s [] k = "destinationTaskListId" -> d
                  [] k = "taskId" -> t [] OTHER -> Undef] :
             s \in ActionArgValues, d \in ActionArgValues, t \in ActionArgValues}
      [] OTHER ->
            {[k \in ActionArgKeys |->
                CASE k = "id" -> i [] k = "title" -> t [] OTHER -> Undef] :
             i \in ActionArgValues, t \in ActionArgValues}

NextActions ==
    \/ \E op \in ActionOps : \E args \in ActionRequests(op) : ActionStart(op, args)
    \/ RemoteReturns
    \/ RemoteThrows

SpecActions == InitActions /\ [][NextActions]_vars

(***************************************************************************)
(* Properties.                                                             *)
(***************************************************************************)
Tokens(a, r) == [access_token |-> a, refresh_token |-> r]

FirstCallThrew(q) == Len(q.outcomes) >= 1 /\ ~q.outcomes[1].ok

\* C1: one call of withAuthRetry invokes the wrapped operation at most twice and
\* enters the repair path at most once (at most one refresh call and at most one
\* interactive authorization), also when every invocation throws an auth error.
C1_RetryBound ==
    \A p \in Procs :
        /\ proc[p].calls <= 2
        /\ proc[p].repairs <= 1
        /\ proc[p].refreshCalls <= 1
        /\ proc[p].authFlows <= 1

C1_Witness ==
    \E p \in Procs :
        /\ proc[p].pc = "done"
        /\ proc[p].calls = 2
        /\ Len(proc[p].outcomes) = 2
        /\ \A i \in 1..2 : ~proc[p].outcomes[i].ok /\ isAuthError(proc[p].outcomes[i].error)
        /\ proc[p].authFlows = 1
        /\ proc[p].result.status = "error"

\* C2: saveCredentials(candidate) writes and returns a record whose refresh_token
\* is the candidate's when the candidate carries one, and the stored one when the
\* candidate's is absent.
C2_MergeKeepsRefreshToken ==
    probe.saved =>
        /\ credFile = StoredFile(probe.returned)
        /\ probe.candidate.refresh_token # None =>
              probe.returned.refresh_token = probe.candidate.refresh_token
        /\ probe.candidate.refresh_token = None =>
              probe.returned.refresh_token = probe.stored.credentials.refresh_token

C2_Witness ==
    /\ probe.saved
    /\ probe.stored = StoredFile(Tokens("a1", "r1"))
    /\ probe.candidate = Tokens("a2", None)
    /\ probe.returned = Tokens("a2", "r1")

\* C3: after any sequence of credential writes the persisted refresh_token is the
\* most recent refresh_token any write carried (or the one the file started with),
\* so a write that carries none does not lose it.
C3_RefreshTokenNeverLost ==
    credFile.state = "ok" => credFile.credentials.refresh_token = lastCarried

\* {a1, r1} stored, then a reauthorization that delivered {a2} alone
C3_Witness ==
    /\ credFile = StoredFile(Tokens("a2", "r1"))
    /\ tokenEvents = 0
    /\ proc[1].pc = "done"
    /\ proc[1].request.name = reauthorize
    /\ proc[1].result.status = "ok"
    /\ \A p \in Procs : p # 1 => proc[p].pc = "idle"

\* C4: when the first invocation throws an error that is not an auth error,
\* withAuthRetry throws that error at once: one invocation, no refresh, no
\* interactive authorization.
C4_NonAuthErrorSurfaced ==
    \A p \in Procs :
        (FirstCallThrew(proc[p]) /\ ~isAuthError(proc[p].outcomes[1].error)) =>
            /\ proc[p].pc = "done"
            /\ proc[p].result = Thrown("remote", proc[p].outcomes[1].error, "", <<>>)
            /\ proc[p].calls = 1
            /\ proc[p].repairs = 0
            /\ proc[p].refreshCalls = 0
            /\ proc[p].authFlows = 0

C4_Witness ==
    \E p \in Procs :
        /\ proc[p].pc = "done"
        /\ proc[p].outcomes = <<Rejected(ErrNotFound)>>
        /\ proc[p].result = Thrown("remote", ErrNotFound, "", <<>>)

\* C5: once a repair has succeeded and the operation was invoked again, that
\* invocation's outcome is the outcome of withAuthRetry: its value is returned,
\* its error (auth error or not) is thrown, and no further refresh, authorization
\* or invocation happens.
C5_RetryOutcomeIsFinal ==
    \A p \in Procs :
        proc[p].calls >= 2 =>
            /\ proc[p].calls = 2
            /\ proc[p].repairs = 1
            /\ proc[p].refreshed + proc[p].authorized = 1
            /\ proc[p].pc \in {"call", "done"}
            /\ proc[p].pc = "call" => Len(proc[p].outcomes) = 1
            /\ proc[p].pc = "done" =>
                  /\ Len(proc[p].outcomes) = 2
                  /\ proc[p].outcomes[2].ok => proc[p].result = Returned("data")
                  /\ ~proc[p].outcomes[2].ok =>
                        proc[p].result =
                            Thrown("remote", proc[p].outcomes[2].error, "", <<>>)

C5_Witness ==
    \E p \in Procs :
        /\ proc[p].pc = "done"
        /\ proc[p].refreshed = 1
        /\ proc[p].outcomes = <<Rejected(ErrInvalidCredentials), Rejected(ErrNotFound)>>
        /\ proc[p].result = Thrown("remote", ErrNotFound, "", <<>>)

\* C6: when the first invocation throws an auth error, the current credential has
\* a refresh_token and the refresh call succeeds, there is exactly one retried
\* invocation, no interactive authorization, and the retried invocation's value
\* is returned.
C6_RefreshThenRetry ==
    \A p \in Procs :
        proc[p].refreshed >= 1 =>
            /\ FirstCallThrew(proc[p]) /\ isAuthError(proc[p].outcomes[1].error)
            /\ proc[p].tokenAtFailure # None
            /\ proc[p].refreshed = 1
            /\ proc[p].calls = 2
            /\ proc[p].authFlows = 0
            /\ proc[p].pc \in {"call", "done"}
            /\ (proc[p].pc = "done" /\ proc[p].outcomes[2].ok) =>
                  proc[p].result = Returned("data")

C6_Witness ==
    \E p \in Procs :
        /\ proc[p].pc = "done"
        /\ proc[p].refreshed = 1
        /\ proc[p].tokenAtFailure = "r1"
        /\ proc[p].outcomes = <<Rejected(ErrInvalidCredentials), Resolved>>
        /\ proc[p].result = Returned("data")

\* C7: when the first invocation throws an auth error and the current credential
\* has no refresh_token, interactive authorization is invoked exactly once and no
\* refresh call is made; the one retried invocation starts only after the
\* authorization has resolved and reloadCredentials has returned.
C7_ReauthorizeThenRetry ==
    \A p \in Procs :
        (/\ FirstCallThrew(proc[p])
         /\ isAuthError(proc[p].outcomes[1].error)
         /\ proc[p].tokenAtFailure = None) =>
            /\ proc[p].authFlows = 1
            /\ proc[p].refreshCalls = 0
            /\ proc[p].calls <= 2
            /\ proc[p].calls = 2 <=> (proc[p].authorized = 1 /\ proc[p].reloads = 1)
            /\ proc[p].pc = "authenticate" => proc[p].authorized = 0

C7_Witness ==
    \E p \in Procs :
        /\ proc[p].pc = "done"
        /\ proc[p].tokenAtFailure = None
        /\ proc[p].outcomes = <<Rejected(ErrInvalidCredentials), Resolved>>
        /\ proc[p].authFlows = 1
        /\ proc[p].authorized = 1
        /\ proc[p].reloads = 1
        /\ proc[p].calls = 2

\* some substring of m equals sub when letter case is ignored
ContainsIgnoringCase(m, sub) ==
    \E k \in 0..(Len(m) - Len(sub)) :
        \A i \in 1..Len(sub) : LowerChar(m[k + i]) = LowerChar(sub[i])

Classified == probe.verdict # "unclassified"

\* C8: any single signal makes an error an auth error, whatever the other fields
\* hold: 401 or 403 on code, status or the nested response status, or
\* UNAUTHENTICATED / PERMISSION_DENIED as code or as the nested response code.
C8_AnySignalIsAuth ==
    LET e == probe.error
    IN  (/\ Classified
         /\ ~e.nullish
         /\ \/ \E v \in {e.code, e.status, e.responseStatus} : IsNum(v, 401) \/ IsNum(v, 403)
            \/ \E v \in {e.code, e.responseCode} :
                  IsStr(v, "UNAUTHENTICATED") \/ IsStr(v, "PERMISSION_DENIED"))
        => probe.verdict = "auth"

\* C9: an error that carries only status 401 or only status 403 is an auth error;
\* one that carries only status 500 and a message with none of the listed
\* substrings is not; a message containing "invalid_grant" in any letter case
\* makes any error an auth error.
C9_ClassificationTable ==
    LET e == probe.error
        bare == /\ ~e.nullish
                /\ e.code = Undef
                /\ e.responseStatus = Undef
                /\ e.responseCode = Undef
    IN  Classified =>
            /\ (bare /\ ~e.hasMessage /\ (IsNum(e.status, 401) \/ IsNum(e.status, 403)))
                  => probe.verdict = "auth"
            /\ (/\ bare
                /\ IsNum(e.status, 500)
                /\ e.hasMessage
                /\ \A sig \in AuthMessageSignals : ~ContainsIgnoringCase(e.message, sig))
                  => probe.verdict = "other"
            /\ (~e.nullish /\ e.hasMessage /\ ContainsIgnoringCase(e.message, invalid_grant))
                  => probe.verdict = "auth"

\* "400: Invalid_Grant." on an error with no code and status 500
C9_Witness ==
    /\ probe.verdict = "auth"
    /\ probe.error.hasMessage
    /\ probe.error.message # toLowerCase(probe.error.message)
    /\ probe.error.message # toUpperCase(probe.error.message)
    /\ Len(probe.error.message) > Len(invalid_grant)
    /\ ContainsIgnoringCase(probe.error.message, invalid_grant)
    /\ probe.error.code = Undef
    /\ probe.error.status = Num(500)
    /\ probe.error.responseCode = Undef

\* the required parameters of the endpoint a request resolves to that are
\* undefined or null among the request's top-level arguments
AbsentRequired(request) ==
    LET required == taskApiEndpoints(toolNameToEndpoint(request.name)).requiredParams
    IN  {required[i] : i \in {j \in 1..Len(required) :
                                 request.args[required[j]].t \in {"undefined", "null"}}}

\* C10: a registered tool invoked with a required parameter missing fails with a
\* validation error before any effect: fn is never invoked, and neither a refresh
\* nor an interactive authorization is started.
C10_ValidationShortCircuit ==
    \A p \in Procs :
        (/\ proc[p].pc # "idle"
         /\ Resolves(proc[p].request.name)
         /\ AbsentRequired(proc[p].request) # {}) =>
            /\ proc[p].pc = "done"
            /\ proc[p].result.status = "error"
            /\ proc[p].result.type = "missing"
            /\ proc[p].result.param \in AbsentRequired(proc[p].request)
            /\ proc[p].result.tool = proc[p].request.name
            /\ proc[p].calls = 0
            /\ proc[p].repairs = 0
            /\ proc[p].refreshCalls = 0
            /\ proc[p].authFlows = 0

C10_Witness ==
    /\ proc[1].pc = "done"
    /\ proc[1].request.name = toToolName(Ep("tasks", "update"))
    /\ proc[1].request.args = Args(Str("x"), Null, Obj)
    /\ proc[1].result = Thrown("missing", NoError, "task", <<"tasks", "-", "update">>)
    /\ proc[1].calls = 0

\* the 14 registered operation names with "-" in place of "."
DashedNames ==
    {<<"tasklists", "-", m>> : m \in {"list", "get", "insert", "update", "patch", "delete"}}
    \cup {<<"tasks", "-", m>> :
            m \in {"list", "get", "insert", "update", "patch", "delete", "move", "clear"}}

\* the handler went past name resolution
PastResolution(q) == q.calls >= 1 \/ q.result.type = "missing"

\* C11: a tool name resolves to an endpoint exactly when it is the dashed form of
\* one of the 14 registered operation names; any other name but "reauthorize",
\* the dotted operation name included, throws "Tool not found" and fn is never
\* invoked.
C11_ResolvesExactlyDashedNames ==
    /\ Cardinality(EndpointNames) = 14
    /\ \A p \in Procs :
          (proc[p].pc # "idle" /\ proc[p].request.name # reauthorize) =>
              /\ proc[p].request.name \in DashedNames => PastResolution(proc[p])
              /\ proc[p].request.name \notin DashedNames =>
                    /\ proc[p].pc = "done"
                    /\ proc[p].result =
                          Thrown("Tool not found", NoError, "", proc[p].request.name)
                    /\ proc[p].calls = 0
                    /\ proc[p].authFlows = 0
                    /\ proc[p].refreshCalls = 0

C11_Witness ==
    /\ proc[1].pc = "done"
    /\ proc[1].request.name = <<"tasks", ".", "get">>
    /\ proc[1].request.args = Args(Str("x"), Str("x"), Undef)
    /\ proc[1].result.type = "Tool not found"
    /\ proc[1].calls = 0

\* C12: "reauthorize", with any arguments, is served without the registry and
\* without withAuthRetry: one interactive authorization, no invocation of fn, no
\* refresh; when the authorization resolves, the stored credential is loaded into
\* the process-wide client and the fixed confirmation is returned.
C12_ReauthorizeBypasses ==
    \A p \in Procs :
        (proc[p].pc # "idle" /\ proc[p].request.name = reauthorize) =>
            /\ proc[p].authFlows = 1
            /\ proc[p].calls = 0
            /\ proc[p].repairs = 0
            /\ proc[p].refreshCalls = 0
            /\ proc[p].pc \in {"authenticate", "done"}
            /\ (proc[p].pc = "done" /\ proc[p].authorized = 0) =>
                  proc[p].result = AuthFlowError
            /\ (proc[p].pc = "done" /\ proc[p].authorized # 0) =>
                  /\ proc[p].authorized = 1
                  /\ proc[p].reloads = 1
                  /\ proc[p].result = Returned("Reauthorization complete")
                  /\ credFile.state = "ok"
                  /\ googleAuth = auth
                  /\ clients[auth].credentials = credFile.credentials

C12_Witness ==
    /\ proc[1].pc = "done"
    /\ proc[1].request = [name |-> reauthorize, args |-> Args(Num(0), Null, Obj)]
    /\ proc[1].result = Returned("Reauthorization complete")
    /\ Len(clients) = 2
    /\ auth = 2
    /\ clients[2].credentials = Tokens("a2", "r1")

\* C13: when the credential of the auth client has no refresh_token, the recovery
\* of an authentication failure issues no refresh call and writes neither the
\* credential file nor any client: it goes straight to interactive authorization.
C13_NoRefreshWithoutRefreshToken ==
    [][\A p \in Procs :
          ( /\ proc[p].pc = "call"
            /\ proc'[p].repairs = proc[p].repairs + 1
            /\ auth # 0
            /\ clients[auth].credentials.refresh_token = None )
          => /\ proc'[p].pc = "authenticate"
             /\ proc'[p].at = "retry"
             /\ proc'[p].refreshCalls = 0
             /\ proc'[p].refreshed = 0
             /\ credFile' = credFile
             /\ clients' = clients
             /\ googleAuth' = googleAuth
             /\ lastCarried' = lastCarried]_vars

C13_Witness ==
    \E p \in Procs :
        /\ proc[p].pc = "authenticate"
        /\ proc[p].at = "retry"
        /\ proc[p].repairs = 1
        /\ proc[p].refreshCalls = 0
        /\ proc[p].authFlows = 1
        /\ auth # 0
        /\ clients[auth].credentials.refresh_token = None
        /\ credFile.credentials.refresh_token = None

\* C14: when the refresh call fails, refreshAccessTokenIfPossible raises nothing
\* and leaves the credential file and every client as they were; withAuthRetry
\* goes on to interactive authorization.
C14_FailedRefreshChangesNothing ==
    [][\A p \in Procs :
          ( /\ proc[p].pc = "refresh"
            /\ proc'[p].pc # "refresh"
            /\ proc'[p].refreshed = proc[p].refreshed )
          => /\ proc'[p].pc = "authenticate"
             /\ proc'[p].at = "retry"
             /\ proc'[p].result = NoResult
             /\ proc'[p].authFlows = proc[p].authFlows + 1
             /\ credFile' = credFile
             /\ clients' = clients
             /\ auth' = auth
             /\ googleAuth' = googleAuth]_vars

C14_Witness ==
    \E p \in Procs :
        /\ proc[p].pc = "authenticate"
        /\ proc[p].refreshCalls = 1
        /\ proc[p].refreshed = 0
        /\ proc[p].authFlows = 1
        /\ credFile.credentials = Tokens("a1", "r1")
        /\ clients[auth].credentials = Tokens("a1", "r1")

\* C15: when the refresh call succeeds, the credential file and the refreshed
\* client both hold the access token of the response with the refresh_token read
\* before the call, whatever refresh_token the response carries; the client is
\* the one the API uses, and fn is invoked again.
C15_RefreshKeepsStartingRefreshToken ==
    [][\A p \in Procs :
          (proc[p].pc = "refresh" /\ proc'[p].refreshed = proc[p].refreshed + 1)
          => /\ proc'[p].pc = "call"
             /\ proc'[p].calls = proc[p].calls + 1
             /\ proc'[p].authFlows = proc[p].authFlows
             /\ credFile'.state = "ok"
             /\ credFile'.credentials.refresh_token = proc[p].refreshToken
             /\ credFile'.credentials.access_token
                    \in {c.access_token : c \in FreshTokens}
             /\ clients'[proc[p].oauth].credentials = credFile'.credentials
             /\ googleAuth' = proc[p].oauth]_vars

C15_Witness ==
    \E p \in Procs :
        /\ proc[p].pc = "call"
        /\ proc[p].calls = 2
        /\ proc[p].refreshed = 1
        /\ tokenEvents = 0
        /\ Len(clients) = 1
        /\ credFile.credentials = Tokens("a2", "r1")
        /\ clients[googleAuth].credentials = Tokens("a2", "r1")

\* C16 as stated: a credential file that is missing or unparsable when the
\* credentials are loaded never terminates the process.
C16_LoadNeverTerminates == proc[Main].pc # "exited"

\* C16: reloadCredentials answers a missing and an unparsable credential file
\* with interactive authorization and changes nothing before it; at startup the
\* server reaches reloadCredentials only when the file exists: an unparsable file
\* leads to interactive authorization, a missing file to process.exit(1) before
\* any authorization.
C16_UnreadableFileAtLoad ==
    [][ /\ reloadCredentials([World EXCEPT !.credFile = MissingFile])
              = [next |-> "auth475", w |-> [World EXCEPT !.credFile = MissingFile]]
        /\ reloadCredentials([World EXCEPT !.credFile = CorruptFile])
              = [next |-> "auth481", w |-> [World EXCEPT !.credFile = CorruptFile]]
        /\ ( /\ proc[Main].pc = "boot"
             /\ proc'[Main].pc # "boot"
             /\ proc'[Main].at # "cli" )
           => /\ credFile = MissingFile =>
                    /\ proc'[Main].pc = "exited"
                    /\ proc'[Main].authFlows = 0
                    /\ credFile' = MissingFile
              /\ credFile = CorruptFile =>
                    /\ proc'[Main].pc = "authenticate"
                    /\ proc'[Main].at = "reload481"
                    /\ proc'[Main].authFlows = 1
              /\ proc'[Main].pc = "exited" => credFile = MissingFile ]_vars

C16_Witness ==
    /\ proc[Main].pc = "serving"
    /\ proc[Main].authorized = 1
    /\ proc[Main].reloads = 1
    /\ \A p \in Procs : proc[p].pc = "idle"
    /\ credFile = StoredFile(Tokens("a2", "r2"))
    /\ clients[auth].credentials = Tokens("a2", "r2")

\* C17: in every listing over all task lists (TaskActions.list,
\* TaskActions.search, TaskResources.list) a sub-list whose call fails is
\* skipped: the listing still completes with the tasks of the other sub-lists.
C17_SubListFailureSkipped ==
    (bulk.pc = "done" /\ bulk.listed /\ bulk.failed # {}) => bulk.status = "ok"

\* C18: whatever getAuthClient, interactive authorizations and reauthorize
\* requests have run, every auth client created so far carries exactly one
\* "tokens" listener, and attachTokenListener applied to it again adds none.
C18_OneListenerPerClient ==
    \A oauth \in 1..Len(clients) :
        /\ clients[oauth].listeners = 1
        /\ oauth \in tokenListenerClients
        /\ attachTokenListener(World, oauth) = World

C18_Witness ==
    /\ Len(clients) = 2
    /\ clients[1].listeners = 1
    /\ clients[2].listeners = 1
    /\ auth = 2
    /\ \E p \in Procs :
          /\ proc[p].request.name = reauthorize
          /\ proc[p].pc = "done"
          /\ proc[p].authorized = 1
    /\ proc[Main].authorized = 0

\* the latest write used a base that another process had overwritten
StaleBase(e) == e.writer # 0 /\ e.base # storedOrEmpty(e.before)

\* C19: saves of two processes can interleave: a save writes the merge of its
\* candidate with the record it read, whatever the file holds by then, so a
\* write that landed in between is dropped wherever the candidate has no value;
\* a save whose base is still the file's content loses nothing the file held.
C19_SaveMergesTheBaseItRead ==
    LET e == writers.lastWrite
    IN  e.writer # 0 =>
          /\ credFile = StoredFile(e.written)
          /\ e.written = mergedCredentials(e.base, e.candidate)
          /\ \A k \in {"access_token", "refresh_token"} :
                /\ e.candidate[k] # None => e.written[k] = e.candidate[k]
                /\ e.candidate[k] = None => e.written[k] = e.base[k]
                /\ ~StaleBase(e) /\ storedOrEmpty(e.before)[k] # None
                      => e.written[k] # None

\* the second writer read before the first wrote r2, and its write brings back r1
C19_Witness ==
    LET e == writers.lastWrite
    IN  /\ StaleBase(e)
        /\ \A w \in Writers : writers.save[w].pc = "written"
        /\ e.base = Tokens("a1", "r1")
        /\ e.before = StoredFile(Tokens("a1", "r2"))
        /\ e.candidate = Tokens("a2", None)
        /\ credFile = StoredFile(Tokens("a2", "r1"))

\* C20: once the client identity is loaded it is never resolved again: the
\* cached identity stays, and the identity of the process-wide auth client is
\* the same before and after every refresh, reload and reauthorization.
C20_IdentityNeverChanges ==
    [][ /\ oauthClientConfig # "null" => oauthClientConfig' = oauthClientConfig
        /\ (auth # 0 /\ auth' # 0) =>
              clients'[auth'].identity = clients[auth].identity ]_vars

\* C21: readStoredCredentials never raises: it returns null for a missing file
\* and for a file that does not parse, and the parsed record otherwise;
\* saveCredentials merges the candidate over an empty base when it got null.
C21_ReadNeverRaises ==
    probe.saved =>
        LET r == readStoredCredentials(probe.stored)
        IN  /\ ~r.raised
            /\ r.isNull <=> probe.stored.state \in {"missing", "corrupt"}
            /\ ~r.isNull => r.value = probe.stored.credentials
            /\ r.isNull =>
                  /\ probe.returned = mergedCredentials(EmptyCredentials, probe.candidate)
                  /\ probe.returned = probe.candidate
                  /\ credFile = StoredFile(probe.candidate)

C21_Witness ==
    /\ probe.saved
    /\ probe.stored = CorruptFile
    /\ probe.candidate = Tokens("a1", None)
    /\ credFile = StoredFile(Tokens("a1", None))

\* the required parameters of a dashed tool name, in declaration order
RequiredOf(name) == taskApiEndpoints(<<name[1], ".", name[3]>>).requiredParams

\* positions of the required parameters that are undefined or null at top level
AbsentAt(request) ==
    {i \in 1..Len(RequiredOf(request.name)) :
        request.args[RequiredOf(request.name)[i]].t \in {"undefined", "null"}}

\* C22: an invocation of a registered tool is rejected exactly when a required
\* parameter is undefined or null among the top-level arguments ("", 0 and false
\* are present; the content of body is not looked at), and the error names the
\* first such parameter in declaration order and the tool.
C22_RejectsExactlyAbsentRequired ==
    \A p \in Procs :
        (proc[p].pc # "idle" /\ proc[p].request.name \in DashedNames) =>
            LET request == proc[p].request
                absent == AbsentAt(request)
            IN  /\ absent = {} =>
                      /\ proc[p].calls >= 1
                      /\ proc[p].result.type # "missing"
                /\ absent # {} =>
                      /\ proc[p].pc = "done"
                      /\ proc[p].calls = 0
                      /\ proc[p].result =
                            Thrown("missing", NoError,
                                   RequiredOf(request.name)[
                                       CHOOSE i \in absent : \A j \in absent : i <= j],
                                   request.name)

C22_Witness ==
    /\ \E p \in Procs :
          /\ proc[p].pc = "done"
          /\ proc[p].request =
                [name |-> <<"tasks", "-", "get">>, args |-> Args(Null, Undef, Obj)]
          /\ proc[p].result.type = "missing"
          /\ proc[p].result.param = "tasklist"

\* s is an initial segment of t
IsPrefix(s, t) == Len(s) <= Len(t) /\ \A i \in 1..Len(s) : s[i] = t[i]

\* C23: TaskActions.move calls get(source), insert(destination), delete(source)
\* in that order and calls delete only after insert resolved; when get or insert
\* fails the source task stays, so a task that was in the source list is never
\* absent from both lists.
C23_MoveDeletesAfterInsert ==
    action.op = "TaskActions.move" =>
        /\ IsPrefix(action.calls, <<"tasks.get", "tasks.insert", "tasks.delete">>)
        /\ Len(action.calls) = 3 => action.inDestination
        /\ action.existed => (action.inSource \/ action.inDestination)
        /\ (action.pc = "done" /\ action.status = "error" /\ Len(action.calls) <= 2)
              => action.inSource = action.existed
        /\ (action.pc = "done" /\ action.status = "ok")
              => (Len(action.calls) = 3 /\ action.inDestination /\ ~action.inSource)

C23_Witness ==
    /\ action.op = "TaskActions.move"
    /\ action.pc = "done"
    /\ action.status = "error"
    /\ action.calls = <<"tasks.get", "tasks.insert">>
    /\ action.existed
    /\ action.inSource
    /\ ~action.inDestination

\* C24: TaskListActions.create without a title, and TaskListActions.update
\* without an id or without a title, throw the matching "is required" error
\* before withAuthRetry is entered, so before any remote call or repair.
C24_TaskListChecksBeforeCalls ==
    LET id == action.args["id"]
        title == action.args["title"]
        required(message) ==
            /\ action.pc = "done"
            /\ action.status = "error"
            /\ action.message = message
            /\ action.calls = <<>>
    IN  /\ (action.op = "TaskListActions.create" /\ ~Truthy(title))
              => required("Task list title is required")
        /\ (action.op = "TaskListActions.update" /\ ~Truthy(id))
              => required("Task list ID is required")
        /\ (action.op = "TaskListActions.update" /\ Truthy(id) /\ ~Truthy(title))
              => required("Task list title is required")
        /\ (action.op \in {"TaskListActions.create", "TaskListActions.update"}
            /\ action.calls = <<>>) => action.status = "error"

C24_Witness ==
    /\ action.op = "TaskListActions.update"
    /\ action.args["id"] = Str("x")
    /\ action.args["title"] = Undef
    /\ action.pc = "done"
    /\ action.message = "Task list title is required"
    /\ action.calls = <<>>

\* no refresh, interactive authorization or startup is in progress
NoCredentialOperation ==
    \A p \in AllProcs : proc[p].pc \notin {"boot", "authenticate", "refresh"}

\* C25: whenever no credential operation is in flight, the credential of the
\* process-wide auth client equals the record in the credential file.
C25_ClientEqualsFile ==
    (NoCredentialOperation /\ auth # 0) =>
        /\ credFile.state = "ok"
        /\ clients[auth].credentials = credFile.credentials

\* C26: when the interactive authorization fails during the recovery of
\* withAuthRetry, the invocation fails with the authorization's error, fn is not
\* invoked again, and the credential file and the process-wide auth client are
\* what they were before the recovery.
C26_FailedAuthorizationEndsRecovery ==
    \A p \in Procs :
        (/\ proc[p].pc = "done"
         /\ proc[p].repairs = 1
         /\ proc[p].authFlows = 1
         /\ proc[p].authorized = 0) =>
            /\ proc[p].result = AuthFlowError
            /\ proc[p].calls = 1
            /\ proc[p].refreshed = 0
            /\ credFile = StoredFile(Tokens("a1", "r1"))
            /\ auth = 1
            /\ googleAuth = 1
            /\ Len(clients) = 1
            /\ clients[1].credentials = Tokens("a1", "r1")

C26_Witness ==
    /\ proc[1].pc = "done"
    /\ proc[1].result = AuthFlowError
    /\ proc[1].repairs = 1
    /\ proc[1].refreshCalls = 1
    /\ proc[1].calls = 1
    /\ credFile = StoredFile(Tokens("a1", "r1"))

\* C27: a refresh that started before a reauthorization completed and resolves
\* after it neither replaces the refresh_token the reauthorization persisted
\* nor binds the API again to the client the reauthorization replaced.
C27_StaleRefreshChangesNothing ==
    [][\A p \in Procs :
          ( /\ proc[p].pc = "refresh"
            /\ proc'[p].refreshed = proc[p].refreshed + 1
            /\ proc[p].oauth # auth )
          => /\ credFile'.credentials.refresh_token = credFile.credentials.refresh_token
             /\ googleAuth' = googleAuth]_vars

\* C28: at most one interactive authorization is in progress at any time.
C28_OneAuthorizationAtATime ==
    Cardinality({p \in AllProcs : proc[p].pc = "authenticate"}) <= 1

\* C29: an invocation of a registered tool that omits an argument listed in the
\* required list of the tool's input schema is rejected without invoking fn.
C29_SchemaRequiredEnforced ==
    \A p \in Procs :
        (proc[p].pc # "idle" /\ proc[p].request.name \in DashedNames) =>
            LET required ==
                    schemaRequired(taskApiEndpoints(
                        <<proc[p].request.name[1], ".", proc[p].request.name[3]>>))
            IN  (\E i \in 1..Len(required) : proc[p].request.args[required[i]] = Undef)
                    => /\ proc[p].pc = "done"
                       /\ proc[p].result.status = "error"
                       /\ proc[p].calls = 0

====
